---- MODULE Spec2Model ----
(***************************************************************************)
(* Model of src/src/simulation/roic.py: the effective tax rate calculator, *)
(* the single-year ROIC improvement sweep and the multi-year stochastic    *)
(* projector.                                                              *)
(*                                                                         *)
(* Numbers.  The program computes with Python floats (IEEE-754 binary      *)
(* floating point, round to nearest, ties to even).  The model keeps that  *)
(* arithmetic and scales its width down: a float is an integer count of    *)
(* 2^-FracBits whose significand has at most Precision bits, and every     *)
(* operation rounds its exact result to the nearest such number.           *)
(***************************************************************************)
EXTENDS Integers, Sequences, FiniteSets, TLC

\* ------------------------------------------------------------ bounds ----
\* Significand bits of the modelled floating-point format (a double has 53).
Precision == 6
\* The smallest positive float of the model is 2^-FracBits.
FracBits == 20
\* Money amounts (revenue, cogs, ...) are drawn from 0 .. MaxAmount.
MaxAmount == 4
\* Rates (tax_rate, waste_percentage, ...) are drawn from k / RateDen.
RateDen == 10
\* removal_points is drawn from 0 .. MaxPoints.
MaxPoints == 5
\* n_years is drawn from 1 .. MaxYears, n_simulations from 1 .. MaxSims.
MaxYears == 3
MaxSims == 3
\* A scenario of the projector makes at most MaxDraws random draws:
\* (n_years - 1) * n_simulations <= MaxDraws.
MaxDraws == 3

\* ------------------------------------------------- float arithmetic ----
Unit == 2 ^ FracBits

RECURSIVE BitLen(_)
BitLen(n) == IF n = 0 THEN 0 ELSE 1 + BitLen(n \div 2)

\* The number of trailing zero bits of n > 0, and n without them: a float
\* x > 0 is Mant(x) * 2^Exp2(x) units with Mant(x) < 2^Precision.
RECURSIVE Exp2(_)
Exp2(n) == IF n % 2 = 1 THEN 0 ELSE 1 + Exp2(n \div 2)
Mant(n) == n \div (2 ^ Exp2(n))

FAbs(x) == IF x < 0 THEN 0 - x ELSE x
Sign(x) == IF x < 0 THEN 0 - 1 ELSE 1

\* n/d (n >= 0, d > 0) rounded to the nearest integer, ties to even.
RoundHalfEven(n, d) ==
    LET f == n \div d
        r == n - f * d
    IN  IF 2 * r < d THEN f
        ELSE IF 2 * r > d THEN f + 1
        ELSE IF f % 2 = 0 THEN f ELSE f + 1

\* n/d units (n >= 0, d > 0) rounded to Precision significant bits.
RoundPos(n, d) ==
    LET bl  == BitLen(n \div d)
        ulp == IF bl > Precision THEN 2 ^ (bl - Precision) ELSE 1
    IN  ulp * RoundHalfEven(n, d * ulp)

\* (n/d) * 2^e units (n >= 0, d > 0) rounded to Precision significant bits;
\* the quotient is scaled only as far as the rounding needs.
RECURSIVE RoundScaled(_, _, _)
RoundScaled(n, d, e) ==
    IF n = 0 THEN 0
    ELSE IF e < 0 THEN RoundPos(n, d * 2 ^ (0 - e))
    ELSE IF e = 0 \/ n >= d * 2 ^ Precision THEN RoundPos(n, d) * 2 ^ e
    ELSE RoundScaled(2 * n, d, e - 1)

\* The float nearest to the integer n units.
RN(n) == Sign(n) * RoundPos(FAbs(n), 1)

FAdd(x, y) == RN(x + y)
FSub(x, y) == RN(x - y)
FMul(x, y) ==
    IF x = 0 \/ y = 0 THEN 0
    ELSE Sign(x) * Sign(y) *
         RoundScaled(Mant(FAbs(x)) * Mant(FAbs(y)), 1,
                     Exp2(FAbs(x)) + Exp2(FAbs(y)) - FracBits)
\* x / y for y # 0 (the callers decide what a zero divisor does).
FDiv(x, y) ==
    IF x = 0 THEN 0
    ELSE Sign(x) * Sign(y) *
         RoundScaled(Mant(FAbs(x)), Mant(FAbs(y)),
                     Exp2(FAbs(x)) - Exp2(FAbs(y)) + FracBits)

\* The float a decimal literal n/d denotes (d > 0).
Lit(n, d) == Sign(n) * RoundScaled(FAbs(n), d, FracBits)
One == Lit(1, 1)

FMax(x, y) == IF x >= y THEN x ELSE y
FMin(x, y) == IF x <= y THEN x ELSE y

\* The largest k in lo .. hi with k * k <= r (lo * lo <= r).
RECURSIVE ISqrtBetween(_, _, _)
ISqrtBetween(lo, hi, r) ==
    IF lo = hi THEN lo
    ELSE LET mid == (lo + hi + 1) \div 2
         IN  IF mid * mid <= r THEN ISqrtBetween(mid, hi, r)
             ELSE ISqrtBetween(lo, mid - 1, r)

\* sqrt(r) for an integer r >= 4^Precision, rounded to Precision
\* significant bits.
RoundSqrt(r) ==
    LET f   == ISqrtBetween(0, IF r < 46340 THEN r ELSE 46340, r)
        ulp == 2 ^ (BitLen(f) - Precision)
        c   == ulp * (f \div ulp)
    IN  IF ulp = 1
        THEN (IF r > c * c + c THEN c + 1 ELSE c)
        ELSE LET mid == c + ulp \div 2
             IN  IF r > mid * mid THEN c + ulp
                 ELSE IF r < mid * mid THEN c
                 ELSE IF (c \div ulp) % 2 = 0 THEN c ELSE c + ulp

\* sqrt(x) for x >= 0, rounded to the nearest float. In units the root is
\* sqrt(m) * 2^h with x * Unit = m * 4^h; m is scaled by 4^Precision so
\* that its integer root carries Precision bits.
FSqrt(x) ==
    IF x = 0 THEN 0
    ELSE LET t0 == Exp2(x) + FracBits
             m  == IF t0 % 2 = 1 THEN 2 * Mant(x) ELSE Mant(x)
             h  == (IF t0 % 2 = 1 THEN t0 - 1 ELSE t0) \div 2
             r  == RoundSqrt(m * 4 ^ Precision)
         IN  IF h >= Precision THEN r * 2 ^ (h - Precision)
             ELSE r \div 2 ^ (Precision - h)

\* x ** 0.7 for x >= 0 in the model's arithmetic.  In binary 0.7 is
\* 0.1011001100..., so x^0.7 = x^(1/2) * x^(1/8) * x^(1/16) * ...: the
\* product of the iterated square roots the set bits select, taken to two
\* bits past the significand.
RECURSIVE PowFrom(_, _, _)
PowFrom(root, k, acc) ==
    IF k > Precision + 2 THEN acc
    ELSE PowFrom(FSqrt(root), k + 1,
                 IF ((7 * 2 ^ k) \div 10) % 2 = 1 THEN FMul(acc, root) ELSE acc)
Pow07(x) == IF x = 0 THEN 0 ELSE PowFrom(FSqrt(x), 1, One)

\* numpy's non-finite results, which the array operations propagate.
NaN == 0 - 2 ^ 30
Inf == 2 ^ 30
IsFinite(x) == x # NaN /\ x # Inf

\* Elementwise numpy arithmetic on values that may be nan or inf.
NpAdd(x, y) ==
    IF x = NaN \/ y = NaN THEN NaN
    ELSE IF x = Inf \/ y = Inf THEN Inf
    ELSE FAdd(x, y)
\* x / y for x >= 0, y >= 0: 0/0 is nan and x/0 is inf (a RuntimeWarning,
\* not an exception).
NpDiv(x, y) ==
    IF x = NaN \/ y = NaN THEN NaN
    ELSE IF x = Inf THEN Inf
    ELSE IF y = 0 THEN (IF x = 0 THEN NaN ELSE Inf)
    ELSE FDiv(x, y)
\* (x - m) * (x - m).
NpSquaredDeviation(x, m) ==
    IF x = NaN \/ m = NaN THEN NaN
    ELSE IF x = Inf /\ m = Inf THEN NaN
    ELSE IF x = Inf \/ m = Inf THEN Inf
    ELSE FMul(FSub(x, m), FSub(x, m))
NpSqrt(x) == IF IsFinite(x) THEN FSqrt(x) ELSE x

\* ----------------------------------------------------------- inputs ----
Amounts == {Lit(k, 1) : k \in 0 .. MaxAmount}
Rates == {Lit(k, RateDen) : k \in 0 .. RateDen}

\* -------------------------------------------------------- variables ----
VARIABLES
    pc,                  \* position in the running call
    args,                \* the call's arguments
    ret,                 \* a scalar return value
    denoms,              \* the denominators of the divisions evaluated so far
    removal_percentages, \* calculate_roic_improvement: the sweep
    roic_values,         \* calculate_roic_improvement: the values appended
    idx,                 \* calculate_roic_improvement: loop position
    rng_stubbed,         \* np.random.normal replaced by a stub returning its mean
    draws,               \* calls of np.random.normal so far
    scenario_idx,        \* position in removal_scenarios
    sim_idx,             \* trials of the scenario started so far
    year,
    current_revenue,
    current_marketing,
    current_capital,
    prior_year_roic,
    current_roic,
    yearly_nopat,
    yearly_capital,
    all_cumulative_roics,
    scenarios,           \* the dictionary returned
    run,                 \* which call of the projector is running (1 or 2)
    first_run            \* what the first call returned, once a second runs

sweepVars == <<removal_percentages, roic_values, idx>>
trialVars ==
    <<year, current_revenue, current_marketing, current_capital, prior_year_roic,
      current_roic, yearly_nopat, yearly_capital>>
callVars == <<run, first_run>>
simVars == <<rng_stubbed, draws, scenario_idx, sim_idx, trialVars,
             all_cumulative_roics, scenarios, callVars>>
vars == <<pc, args, ret, denoms, sweepVars, simVars>>

\* The projector's variables while another function runs.
SimIdle ==
    /\ rng_stubbed = FALSE
    /\ draws = 0
    /\ scenario_idx = 0
    /\ sim_idx = 0
    /\ year = 0
    /\ current_revenue = 0
    /\ current_marketing = 0
    /\ current_capital = 0
    /\ prior_year_roic = 0
    /\ current_roic = 0
    /\ yearly_nopat = <<>>
    /\ yearly_capital = <<>>
    /\ all_cumulative_roics = <<>>
    /\ scenarios = <<>>
    /\ run = 1
    /\ first_run = <<>>

\* ------------------------------------ calculate_effective_tax_rate ----
\* roic.py line 23: the guard before the division.
EffTaxGuard_Strict(true_operating_income) == true_operating_income < 0
EffTaxGuard(true_operating_income) == true_operating_income <= 0

\* roic.py line 18: the wasted part of the spend.
WastedMarketing_Effective(total_marketing_spend, waste_percentage) ==
    FMul(total_marketing_spend, FSub(One, waste_percentage))
WastedMarketing(total_marketing_spend, waste_percentage) ==
    FMul(total_marketing_spend, waste_percentage)

\* roic.py line 28: NOPAT at the nominal rate.
ActualNopat_NoComplement(actual_operating_income, tax_rate) ==
    FMul(actual_operating_income, tax_rate)
ActualNopat(actual_operating_income, tax_rate) ==
    FMul(actual_operating_income, FSub(One, tax_rate))

\* [ret, denoms, raised]: the value returned, the denominators divided by,
\* and whether the division raised ZeroDivisionError.
calculate_effective_tax_rate(revenue, cogs, non_marketing_opex, total_marketing_spend, waste_percentage, tax_rate) ==
    LET effective_marketing == FMul(total_marketing_spend, FSub(One, waste_percentage))
        wasted_marketing == WastedMarketing(total_marketing_spend, waste_percentage)
        true_operating_income ==
            FSub(FSub(FSub(revenue, cogs), non_marketing_opex), effective_marketing)
        actual_operating_income == FSub(true_operating_income, wasted_marketing)
        actual_nopat == ActualNopat(actual_operating_income, tax_rate)
    IN  IF EffTaxGuard(true_operating_income)
        THEN [ret |-> 0, denoms |-> {}, raised |-> FALSE]
        ELSE IF true_operating_income = 0
        THEN [ret |-> 0, denoms |-> {0}, raised |-> TRUE]
        ELSE [ret |-> FSub(One, FDiv(actual_nopat, true_operating_income)),
              denoms |-> {true_operating_income}, raised |-> FALSE]

TaxArgs ==
    [revenue : Amounts, cogs : Amounts, non_marketing_opex : Amounts,
     total_marketing_spend : Amounts, waste_percentage : Rates, tax_rate : Rates]

InitTax ==
    /\ pc = "call"
    /\ args \in TaxArgs
    /\ ret = 0
    /\ denoms = {}
    /\ removal_percentages = <<>>
    /\ roic_values = <<>>
    /\ idx = 0
    /\ SimIdle

TaxCall ==
    /\ pc = "call"
    /\ LET r == calculate_effective_tax_rate(
                    args.revenue, args.cogs, args.non_marketing_opex,
                    args.total_marketing_spend, args.waste_percentage, args.tax_rate)
       IN  /\ ret' = r.ret
           /\ denoms' = r.denoms
           /\ pc' = IF r.raised THEN "raised" ELSE "done"
    /\ UNCHANGED <<args, sweepVars, simVars>>

NextTax == TaxCall

SpecTax == InitTax /\ [][NextTax]_vars

\* -------------------------------------- calculate_roic_improvement ----
\* np.linspace(0, 1, num): step = 1.0 / (num - 1).
LinspaceStep_OffByOne(num) == FDiv(One, Lit(num, 1))
LinspaceStep(num) == FDiv(One, Lit(num - 1, 1))

\* np.linspace(0, 1, num) for num >= 0: arange(num) * step + start, and
\* the last entry set to stop when num > 1.
Linspace(num) ==
    [i \in 1 .. num |->
        IF num > 1 /\ i = num THEN One
        ELSE IF num = 1 THEN 0
        ELSE FAdd(FMul(Lit(i - 1, 1), LinspaceStep(num)), 0)]

\* roic.py lines 62-63.
EffectiveSpend(total_marketing_spend, effectiveness_percentage) ==
    FMul(total_marketing_spend, effectiveness_percentage)
IneffectiveSpend_Effective(total_marketing_spend, effectiveness_percentage) ==
    FMul(total_marketing_spend, effectiveness_percentage)
IneffectiveSpend(total_marketing_spend, effectiveness_percentage) ==
    FMul(total_marketing_spend, FSub(One, effectiveness_percentage))

\* roic.py lines 67-68.
CurrentMarketingSpend_Added(total_marketing_spend, ineffective_spend, removal_pct) ==
    FAdd(total_marketing_spend, FMul(ineffective_spend, removal_pct))
CurrentMarketingSpend(total_marketing_spend, ineffective_spend, removal_pct) ==
    FSub(total_marketing_spend, FMul(ineffective_spend, removal_pct))

\* roic.py line 73.
RoicGuard_And(operating_income, invested_capital) ==
    operating_income <= 0 /\ invested_capital <= 0
RoicGuard(operating_income, invested_capital) ==
    operating_income <= 0 \/ invested_capital <= 0

RoicArgs ==
    [revenue : Amounts,
     cogs : {Lit(0, 1), Lit(1, 1)},
     non_marketing_opex : {Lit(0, 1), Lit(1, 2)},
     total_marketing_spend : Amounts,
     effectiveness_percentage : Rates,
     tax_rate : {Lit(3, 10), Lit(1, 1)},
     invested_capital : {Lit(0, 1), Lit(3, 1)},
     removal_points : 0 .. MaxPoints]

InitRoic ==
    /\ pc = "call"
    /\ args \in RoicArgs
    /\ ret = 0
    /\ denoms = {}
    /\ removal_percentages = <<>>
    /\ roic_values = <<>>
    /\ idx = 0
    /\ SimIdle

\* roic.py lines 58-63: the sweep and the split of the spend.
RoicCall ==
    /\ pc = "call"
    /\ removal_percentages' = Linspace(args.removal_points)
    /\ roic_values' = <<>>
    /\ idx' = 1
    /\ pc' = "loop"
    /\ UNCHANGED <<args, ret, denoms, simVars>>

\* roic.py lines 65-80: one iteration of the loop.
RoicLoop ==
    /\ pc = "loop"
    /\ idx <= Len(removal_percentages)
    /\ LET removal_pct == removal_percentages[idx]
           ineffective_spend ==
               IneffectiveSpend(args.total_marketing_spend, args.effectiveness_percentage)
           current_marketing_spend ==
               CurrentMarketingSpend(args.total_marketing_spend, ineffective_spend, removal_pct)
           operating_income ==
               FSub(FSub(FSub(args.revenue, args.cogs), args.non_marketing_opex),
                    current_marketing_spend)
           nopat == FMul(operating_income, FSub(One, args.tax_rate))
       IN  \/ /\ RoicGuard(operating_income, args.invested_capital)
              /\ roic_values' = Append(roic_values, 0)
              /\ idx' = idx + 1
              /\ UNCHANGED <<pc, denoms>>
           \/ /\ ~RoicGuard(operating_income, args.invested_capital)
              /\ args.invested_capital # 0
              /\ roic_values' = Append(roic_values, FDiv(nopat, args.invested_capital))
              /\ denoms' = denoms \cup {args.invested_capital}
              /\ idx' = idx + 1
              /\ UNCHANGED pc
    /\ UNCHANGED <<args, ret, removal_percentages, simVars>>

\* roic.py line 82.
RoicReturn ==
    /\ pc = "loop"
    /\ idx > Len(removal_percentages)
    /\ pc' = "done"
    /\ UNCHANGED <<args, ret, denoms, sweepVars, simVars>>

NextRoic == RoicCall \/ RoicLoop \/ RoicReturn

SpecRoic == InitRoic /\ [][NextRoic]_vars

\* ------------------------------ simulate_multi_year_cumulative_roic ----
\* roic.py lines 151-152.
revenue_std == Lit(5, 100)
roic_impact == Lit(1, 1)

\* The standard normal deviates z the model draws; np.random.normal(loc,
\* scale) is loc + scale * z.  The stub of the determinism test is z = 0.
Deviates == IF rng_stubbed THEN {0} ELSE {Lit(0 - 3, 1), Lit(1, 1)}
RandomNormal(loc, scale, z) == FAdd(loc, FMul(scale, z))

\* roic.py lines 169-184 with the removal of years > 0 applied to the whole
\* spend instead of the growth.
MarketingOfYear_WholeSpend(y, marketing, removal_pct, prior_roic) ==
    LET waste_amount == FMul(marketing, FSub(One, args.base_effectiveness))
        removed_waste == FMul(waste_amount, removal_pct)
        kept == FSub(marketing, removed_waste)
    IN  IF y = 0 THEN kept
        ELSE FAdd(kept, FMul(kept, FAdd(args.marketing_growth,
                     FMax(Lit(0 - 1, 10), FMin(Lit(2, 10), FSub(prior_roic, Lit(5, 100)))))))

\* roic.py lines 169-184: the marketing spend of the year.
MarketingOfYear(y, marketing, removal_pct, prior_roic) ==
    IF y = 0
    THEN LET waste_amount == FMul(marketing, FSub(One, args.base_effectiveness))
             removed_waste == FMul(waste_amount, removal_pct)
         IN  FSub(marketing, removed_waste)
    ELSE LET roic_adjustment == FMul(FSub(prior_roic, Lit(5, 100)), roic_impact)
             adjusted_growth ==
                 FAdd(args.marketing_growth,
                      FMax(Lit(0 - 1, 10), FMin(Lit(2, 10), roic_adjustment)))
             base_growth == FMul(marketing, adjusted_growth)
             waste_in_growth == FMul(base_growth, FSub(One, args.base_effectiveness))
             removed_growth_waste == FMul(waste_in_growth, removal_pct)
             actual_growth == FSub(base_growth, removed_growth_waste)
         IN  FAdd(marketing, actual_growth)

\* roic.py lines 187-194.
OperatingIncome(rev, marketing) ==
    FSub(FSub(FSub(rev, args.cogs), args.non_marketing_opex), marketing)
Nopat_Unfloored(operating_income) == FMul(operating_income, FSub(One, args.tax_rate))
Nopat(operating_income) == FMax(0, FMul(operating_income, FSub(One, args.tax_rate)))

\* roic.py lines 206-210: the mean of the revenue growth draw.
TotalRevenueGrowth(marketing, roic) ==
    LET base_revenue_growth ==
            FMul(args.marketing_growth,
                 Pow07(FDiv(marketing, args.total_marketing_spend)))
        roic_boost == FMax(0, FMul(FSub(roic, Lit(5, 100)), Lit(7, 10)))
    IN  FAdd(base_revenue_growth, roic_boost)

\* roic.py line 214: the revenue of the next year.
GrowRevenue_Unclipped(rev, revenue_growth) == FMul(rev, FAdd(One, revenue_growth))
GrowRevenue(rev, revenue_growth) == FMul(rev, FAdd(One, FMax(0, revenue_growth)))

\* roic.py line 217: the capital of the next year.
GrowCapital_Additive(capital) == FAdd(capital, args.capital_growth)
GrowCapital(capital) == FMul(capital, FAdd(One, args.capital_growth))

\* np.cumsum.
RECURSIVE CumSum(_)
CumSum(seq) ==
    IF Len(seq) <= 1 THEN seq
    ELSE LET head == CumSum(SubSeq(seq, 1, Len(seq) - 1))
         IN  Append(head, NpAdd(head[Len(head)], seq[Len(seq)]))

\* np.sum over the trials (axis 0), one year at a time, in trial order.
RECURSIVE SumOver(_, _)
SumOver(rows, n) == IF n = 0 THEN 0 ELSE NpAdd(SumOver(rows, n - 1), rows[n])

\* np.mean(axis=0) and np.std(axis=0) of column y of the trials' sequences.
Column(rows, y) == [i \in 1 .. Len(rows) |-> rows[i][y]]
NpMean(col) == NpDiv(SumOver(col, Len(col)), Lit(Len(col), 1))
NpStd(col) ==
    LET mean == NpMean(col)
        sq == [i \in 1 .. Len(col) |-> NpSquaredDeviation(col[i], mean)]
    IN  NpSqrt(NpDiv(SumOver(sq, Len(sq)), Lit(Len(sq), 1)))

\* The removal scenario being simulated.
RemovalPct == args.removal_scenarios[scenario_idx]
RemovalKeys == {args.removal_scenarios[i] : i \in 1 .. Len(args.removal_scenarios)}
NoResult == [set |-> FALSE, years |-> <<>>, mean_roics |-> <<>>, std_roics |-> <<>>]

SimArgs ==
    {a \in
    [revenue : {Lit(2, 1), Lit(MaxAmount, 1)},
     cogs : {Lit(1, 1)},
     non_marketing_opex : {Lit(1, 2)},
     total_marketing_spend : {Lit(0, 1), Lit(2, 1)},
     tax_rate : {Lit(1, 4)},
     invested_capital : {Lit(0, 1), Lit(2, 1), Lit(5, 1)},
     marketing_growth : {Lit(1, 10)},
     capital_growth : {Lit(1, 10), Lit(1, 5)},
     n_years : 1 .. MaxYears,
     n_simulations : 1 .. MaxSims,
     base_effectiveness : {Lit(1, 2), Lit(3, 10)},
     removal_scenarios : {<<Lit(0, 1), Lit(99, 100)>>, <<Lit(33, 100)>>}] :
        (a.n_years - 1) * a.n_simulations <= MaxDraws}

InitSim ==
    /\ pc = "call"
    /\ args \in SimArgs
    /\ ret = 0
    /\ denoms = {}
    /\ removal_percentages = <<>>
    /\ roic_values = <<>>
    /\ idx = 0
    /\ rng_stubbed \in BOOLEAN
    /\ draws = 0
    /\ scenario_idx = 0
    /\ sim_idx = 0
    /\ year = 0
    /\ current_revenue = 0
    /\ current_marketing = 0
    /\ current_capital = 0
    /\ prior_year_roic = 0
    /\ current_roic = 0
    /\ yearly_nopat = <<>>
    /\ yearly_capital = <<>>
    /\ all_cumulative_roics = <<>>
    /\ scenarios = <<>>
    /\ run = 1
    /\ first_run = <<>>

\* roic.py lines 147-148: years and the dictionary of None.
SimCall ==
    /\ pc = "call"
    /\ scenarios' = [r \in RemovalKeys |-> NoResult]
    /\ scenario_idx' = 1
    /\ pc' = "scenario"
    /\ UNCHANGED <<callVars, args, ret, denoms, sweepVars, rng_stubbed, draws, sim_idx,
                   trialVars, all_cumulative_roics>>

\* roic.py lines 154-155: the next removal scenario.
ScenarioBegin ==
    /\ pc = "scenario"
    /\ scenario_idx <= Len(args.removal_scenarios)
    /\ all_cumulative_roics' = <<>>
    /\ sim_idx' = 0
    /\ pc' = "trial"
    /\ UNCHANGED <<callVars, args, ret, denoms, sweepVars, rng_stubbed, draws, scenario_idx,
                   trialVars, scenarios>>

\* roic.py lines 157-165: the next trial starts from the caller's inputs.
TrialBegin ==
    /\ pc = "trial"
    /\ sim_idx < args.n_simulations
    /\ sim_idx' = sim_idx + 1
    /\ yearly_nopat' = <<>>
    /\ yearly_capital' = <<>>
    /\ current_revenue' = args.revenue
    /\ current_marketing' = args.total_marketing_spend
    /\ current_capital' = args.invested_capital
    /\ prior_year_roic' = 0
    /\ year' = 0
    /\ pc' = "year"
    /\ UNCHANGED <<callVars, args, ret, denoms, sweepVars, rng_stubbed, draws, scenario_idx,
                   current_roic, all_cumulative_roics, scenarios>>

\* roic.py lines 167-201: marketing, NOPAT and capital of the year, and the
\* year's own ROIC.
YearBody ==
    /\ pc = "year"
    /\ year < args.n_years
    /\ LET marketing ==
               MarketingOfYear(year, current_marketing, RemovalPct, prior_year_roic)
           nopat == Nopat(OperatingIncome(current_revenue, marketing))
       IN  /\ current_marketing' = marketing
           /\ yearly_nopat' = Append(yearly_nopat, nopat)
           /\ yearly_capital' = Append(yearly_capital, current_capital)
           /\ current_roic' =
                 IF current_capital > 0 THEN FDiv(nopat, current_capital) ELSE 0
           /\ denoms' = IF current_capital > 0 THEN denoms \cup {current_capital}
                        ELSE denoms
    /\ pc' = "advance"
    /\ UNCHANGED <<callVars, args, ret, sweepVars, rng_stubbed, draws, scenario_idx, sim_idx,
                   year, current_revenue, current_capital, prior_year_roic,
                   all_cumulative_roics, scenarios>>

\* roic.py lines 203-220: the state of the next year, unless this was the
\* last one.
YearAdvance ==
    /\ pc = "advance"
    /\ \/ /\ year < args.n_years - 1
          /\ args.total_marketing_spend # 0
          /\ \E z \in Deviates :
                LET revenue_growth ==
                        RandomNormal(TotalRevenueGrowth(current_marketing, current_roic),
                                     revenue_std, z)
                IN  current_revenue' = GrowRevenue(current_revenue, revenue_growth)
          /\ draws' = draws + 1
          /\ denoms' = denoms \cup {args.total_marketing_spend}
          /\ current_capital' = GrowCapital(current_capital)
          /\ prior_year_roic' = current_roic
          /\ year' = year + 1
          /\ pc' = "year"
       \/ /\ year < args.n_years - 1
          /\ args.total_marketing_spend = 0
          \* line 206: current_marketing / 0 raises ZeroDivisionError.
          /\ denoms' = denoms \cup {0}
          /\ pc' = "raised"
          /\ UNCHANGED <<draws, current_revenue, current_capital, prior_year_roic, year>>
       \/ /\ year >= args.n_years - 1
          /\ year' = year + 1
          /\ pc' = "year"
          /\ UNCHANGED <<draws, denoms, current_revenue, current_capital,
                         prior_year_roic>>
    /\ UNCHANGED <<callVars, args, ret, sweepVars, rng_stubbed, scenario_idx, sim_idx,
                   current_marketing, current_roic, yearly_nopat, yearly_capital,
                   all_cumulative_roics, scenarios>>

\* roic.py lines 222-226: the trial's cumulative ROIC per year.
TrialEnd ==
    /\ pc = "year"
    /\ year >= args.n_years
    /\ LET cumulative_nopats == CumSum(yearly_nopat)
           cumulative_capitals == CumSum(yearly_capital)
           yearly_cumulative_roics ==
               [y \in 1 .. Len(cumulative_nopats) |->
                   NpDiv(cumulative_nopats[y], cumulative_capitals[y])]
       IN  /\ all_cumulative_roics' = Append(all_cumulative_roics, yearly_cumulative_roics)
           /\ denoms' = denoms \cup {cumulative_capitals[y] : y \in 1 .. Len(cumulative_capitals)}
    /\ pc' = "trial"
    /\ UNCHANGED <<callVars, args, ret, sweepVars, rng_stubbed, draws, scenario_idx, sim_idx,
                   trialVars, scenarios>>

\* roic.py lines 228-233: mean and standard deviation across the trials.
ScenarioEnd ==
    /\ pc = "trial"
    /\ sim_idx >= args.n_simulations
    /\ scenarios' =
          [scenarios EXCEPT ![RemovalPct] =
              [set |-> TRUE,
               years |-> [y \in 1 .. args.n_years |-> y],
               mean_roics |-> [y \in 1 .. args.n_years |->
                                  NpMean(Column(all_cumulative_roics, y))],
               std_roics |-> [y \in 1 .. args.n_years |->
                                 NpStd(Column(all_cumulative_roics, y))]]]
    /\ scenario_idx' = scenario_idx + 1
    /\ pc' = "scenario"
    /\ UNCHANGED <<callVars, args, ret, denoms, sweepVars, rng_stubbed, draws, sim_idx,
                   trialVars, all_cumulative_roics>>

\* roic.py line 235.
SimReturn ==
    /\ pc = "scenario"
    /\ scenario_idx > Len(args.removal_scenarios)
    /\ pc' = "done"
    /\ UNCHANGED <<args, ret, denoms, sweepVars, simVars>>

\* The determinism test: with the stub in place the caller runs the
\* projector a second time with the same arguments.
SimRerun ==
    /\ pc = "done"
    /\ rng_stubbed
    /\ run = 1
    /\ run' = 2
    /\ first_run' = scenarios
    /\ draws' = 0
    /\ scenario_idx' = 0
    /\ scenarios' = <<>>
    /\ pc' = "call"
    /\ UNCHANGED <<args, ret, denoms, sweepVars, rng_stubbed, sim_idx, trialVars,
                   all_cumulative_roics>>

NextSim ==
    \/ SimCall
    \/ ScenarioBegin
    \/ TrialBegin
    \/ YearBody
    \/ YearAdvance
    \/ TrialEnd
    \/ ScenarioEnd
    \/ SimReturn
    \/ SimRerun

SpecSim == InitSim /\ [][NextSim]_vars

\* ------------------------------------------------------------------------
\* Claims about simulate_multi_year_cumulative_roic (checked under SpecSim).
\* ------------------------------------------------------------------------
SimFinished == pc \in {"done", "raised"}
TotalDraws ==
    Len(args.removal_scenarios) * args.n_simulations * (args.n_years - 1)

\* C1: no call evaluates a division whose denominator is zero or negative,
\* and so every call on valid inputs finishes without raising.
C1_NoBadDivision ==
    /\ \A d \in denoms : d > 0
    /\ pc # "raised"

\* C7: each trial draws once in each non-final year and never in its final
\* year, so a call makes exactly len(removal_scenarios) * n_simulations *
\* (n_years - 1) draws.
C7_DrawCount ==
    /\ pc \in {"year", "advance"} =>
          LET trials_done == (scenario_idx - 1) * args.n_simulations + (sim_idx - 1)
              years_drawn == IF year < args.n_years - 1 THEN year ELSE args.n_years - 1
          IN  draws = trials_done * (args.n_years - 1) + years_drawn
    /\ SimFinished => draws = TotalDraws

\* The part of C7 that holds: a call that returns has made exactly that
\* many draws.
C7_DrawCountOnReturn == pc = "done" => draws = TotalDraws

\* NOPAT of a single year as C8 writes it.
C8_Nopat(removal) ==
    FMax(0, FMul(FSub(FSub(FSub(args.revenue, args.cogs), args.non_marketing_opex),
                      FMul(args.total_marketing_spend,
                           FSub(One, FMul(FSub(One, args.base_effectiveness), removal)))),
                 FSub(One, args.tax_rate)))

\* C8: for n_years = 1 the single output value of every scenario is the
\* year's NOPAT divided by invested_capital, no draw is made and std_roic[0]
\* is 0.
C8_SingleYear ==
    (pc = "done" /\ args.n_years = 1) =>
        /\ draws = 0
        /\ \A r \in DOMAIN scenarios :
              /\ scenarios[r].std_roics[1] = 0
              /\ args.invested_capital > 0 =>
                    scenarios[r].mean_roics[1] =
                        FDiv(C8_Nopat(r), args.invested_capital)

\* C10: with the draw stubbed to its mean the call returns, all trials of a
\* scenario produce the same cumulative-ROIC sequence, std_roic is all
\* zeros for any n_simulations, and a second run with the same arguments
\* returns the same mean_roic sequences.
C10_Deterministic ==
    rng_stubbed =>
        /\ pc # "raised"
        /\ \A i, j \in 1 .. Len(all_cumulative_roics) :
              all_cumulative_roics[i] = all_cumulative_roics[j]
        /\ \A r \in DOMAIN scenarios :
              scenarios[r].set =>
                  \A y \in 1 .. args.n_years : scenarios[r].std_roics[y] = 0
        /\ (pc = "done" /\ run = 2) =>
              \A r \in DOMAIN scenarios :
                  scenarios[r].mean_roics = first_run[r].mean_roics

\* The part of C10 that holds: the trials of a stubbed scenario agree, and
\* a second run returns what the first returned.
C10_TrialsAgree ==
    rng_stubbed =>
        /\ \A i, j \in 1 .. Len(all_cumulative_roics) :
              all_cumulative_roics[i] = all_cumulative_roics[j]
        /\ (pc = "done" /\ run = 2) => scenarios = first_run

\* base ** k for a float base > 0 and an integer k >= 0, correctly rounded.
FPowInt(base, k) ==
    IF k = 0 THEN One
    ELSE RoundScaled(Mant(base) ^ k, 1, k * Exp2(base) - (k - 1) * FracBits)

\* The capital of year k (0-indexed) as the trial computes it: k rounded
\* multiplications by 1 + capital_growth.
RECURSIVE CapitalOfYear(_)
CapitalOfYear(k) ==
    IF k = 0 THEN args.invested_capital
    ELSE FMul(CapitalOfYear(k - 1), FAdd(One, args.capital_growth))

\* invested_capital * (1 + capital_growth) ** k, as C11 writes it.
C11_PowerCapital(k) ==
    FMul(args.invested_capital, FPowInt(FAdd(One, args.capital_growth), k))

\* C11 as stated: the capital recorded for year k is exactly
\* invested_capital * (1 + capital_growth) ^ k.
C11_ExactPower ==
    \A k \in 1 .. Len(yearly_capital) : yearly_capital[k] = C11_PowerCapital(k - 1)

\* The capital recorded so far depends on the arguments and the year only,
\* and is the power up to rounding.
C11_Recorded ==
    /\ \A k \in 1 .. Len(yearly_capital) :
          /\ yearly_capital[k] = CapitalOfYear(k - 1)
          /\ FAbs(yearly_capital[k] - C11_PowerCapital(k - 1)) * 2 ^ (Precision - 1)
                <= k * yearly_capital[k]
    /\ (pc = "year" /\ year >= args.n_years) =>
          current_capital = yearly_capital[args.n_years]

\* A step that changes revenue, capital or prior_year_roic is either the
\* initialisation of a trial or the update of a non-final year whose NOPAT
\* and capital are already recorded.
C11_UpdateOrder ==
    ( \/ current_revenue' # current_revenue
      \/ current_capital' # current_capital
      \/ prior_year_roic' # prior_year_roic )
    => \/ pc = "trial"
       \/ /\ pc = "advance"
          /\ year < args.n_years - 1
          /\ Len(yearly_nopat) = year + 1
          /\ Len(yearly_capital) = year + 1
          /\ yearly_capital[year + 1] = current_capital

\* C11 amended: the capital recorded for year k is invested_capital
\* multiplied k times by (1 + capital_growth), each product rounded, which
\* is invested_capital * (1 + capital_growth) ^ k up to rounding and does not
\* depend on the draws, the scenario or ROIC; revenue, capital and
\* prior_year_roic change only after the year's NOPAT and capital are
\* recorded and never in the final year.
C11_CapitalSchedule == [](C11_Recorded) /\ [][C11_UpdateOrder]_vars

\* C11 witness: a trial with noise has recorded three years, and the third
\* capital is the iterated product but not the rounded power.
C11_Witness ==
    /\ ~rng_stubbed
    /\ draws > 0
    /\ args.invested_capital > 0
    /\ Len(yearly_capital) = 3
    /\ yearly_capital[3] = CapitalOfYear(2)
    /\ yearly_capital[3] # C11_PowerCapital(2)

\* 1 - (1 - base_effectiveness) * removal, the share of a spend that C12
\* keeps.
C12_Kept == FSub(One, FMul(FSub(One, args.base_effectiveness), RemovalPct))
\* g = marketing_growth + clip(prior_year_roic - 0.05, -0.1, 0.2).
C12_Growth ==
    FAdd(args.marketing_growth,
         FMax(Lit(0 - 1, 10), FMin(Lit(2, 10), FSub(prior_year_roic, Lit(5, 100)))))
\* The spend of the year as C12 writes it, from the spend before the year.
C12_Stated(marketing) ==
    IF year = 0 THEN FMul(marketing, C12_Kept)
    ELSE FMul(marketing, FAdd(One, FMul(C12_Growth, C12_Kept)))
\* The same spend in the order the trial evaluates it: the removed waste is
\* subtracted from the whole spend in year 0 and from the growth increment
\* afterwards, and the spend carried over enters unchanged.
C12_Evaluated(marketing) ==
    IF year = 0
    THEN FSub(marketing,
              FMul(FMul(marketing, FSub(One, args.base_effectiveness)), RemovalPct))
    ELSE LET base_growth == FMul(marketing, C12_Growth)
         IN  FAdd(marketing,
                  FSub(base_growth,
                       FMul(FMul(base_growth, FSub(One, args.base_effectiveness)),
                            RemovalPct)))
\* The single-year ROIC of the year recorded last.
C12_LastRoic ==
    LET n == Len(yearly_nopat)
    IN  IF yearly_capital[n] > 0 THEN FDiv(yearly_nopat[n], yearly_capital[n]) ELSE 0
\* The step that computes the spend of a year.
C12_IsYearStep == pc = "year" /\ pc' = "advance"

\* C12 as stated: the spend of year 0 is total_marketing_spend * (1 - (1 -
\* base_effectiveness) * removal) and the spend of a year > 0 is
\* current_marketing * (1 + g * (1 - (1 - base_effectiveness) * removal)).
C12_AsStated ==
    [][C12_IsYearStep =>
          /\ year = 0 => current_marketing = args.total_marketing_spend
          /\ current_marketing' = C12_Stated(current_marketing)]_vars

\* C12 amended: the spend of a year is the stated product up to rounding
\* (within four units in the last place), computed as the spend
\* carried over minus the removed waste (year 0) or plus the growth less
\* its removed waste (years > 0); prior_year_roic is the single-year ROIC of
\* the year before.
C12_MarketingUpdate ==
    [][C12_IsYearStep =>
            /\ year = 0 => current_marketing = args.total_marketing_spend
            /\ year > 0 => prior_year_roic = C12_LastRoic
            /\ current_marketing' = C12_Evaluated(current_marketing)
            /\ FAbs(current_marketing' - C12_Stated(current_marketing))
                   * 2 ^ (Precision - 1) <= 2 * current_marketing']_vars

\* The spend after year 0, which depends on the arguments only.
C12_SpendOfYear0 ==
    FSub(args.total_marketing_spend,
         FMul(FMul(args.total_marketing_spend, FSub(One, args.base_effectiveness)),
              RemovalPct))

\* C12 witness: year 1 of a trial with waste removed and a prior ROIC above
\* the 5% baseline has grown the spend of year 0 by the evaluated increment,
\* which is not the stated product exactly.
C12_Witness ==
    /\ pc = "advance"
    /\ year = 1
    /\ RemovalPct > 0
    /\ prior_year_roic > Lit(5, 100)
    /\ current_marketing > C12_SpendOfYear0
    /\ current_marketing = C12_Evaluated(C12_SpendOfYear0)
    /\ current_marketing # C12_Stated(C12_SpendOfYear0)

\* C13: within a trial current_revenue never decreases from one year to the
\* next, whatever the draw: every step other than the start of a new trial
\* leaves it at least as large, and it is never below the caller's revenue.
C13_RevenueNeverDecreases ==
    /\ [](pc \in {"year", "advance"} =>
            current_revenue >= args.revenue /\ args.revenue >= 0)
    /\ [][pc # "trial" => current_revenue' >= current_revenue]_vars

\* C13 witness: a trial with noise has made its first draw, negative (three
\* standard deviations below a mean smaller than that), and the growth was
\* clipped: the revenue of year 1 is the revenue of year 0, not less.
C13_Witness ==
    /\ ~rng_stubbed
    /\ pc = "year"
    /\ year = 1
    /\ draws >= 1
    /\ args.revenue > 0
    /\ args.total_marketing_spend > 0
    /\ current_revenue = args.revenue

\* C15: with invested_capital > 0 every recorded yearly NOPAT, every
\* cumulative ROIC of a trial and every mean_roic entry is a finite number
\* >= 0, and a year whose operating income is <= 0 records NOPAT 0.
C15_NonNegative ==
    args.invested_capital > 0 =>
        /\ \A k \in 1 .. Len(yearly_nopat) : yearly_nopat[k] >= 0
        /\ pc = "advance" =>
              (OperatingIncome(current_revenue, current_marketing) <= 0
                  => yearly_nopat[year + 1] = 0)
        /\ \A i \in 1 .. Len(all_cumulative_roics) :
              \A y \in 1 .. Len(all_cumulative_roics[i]) :
                  IsFinite(all_cumulative_roics[i][y]) /\ all_cumulative_roics[i][y] >= 0
        /\ \A r \in DOMAIN scenarios :
              scenarios[r].set =>
                  \A y \in 1 .. args.n_years :
                      IsFinite(scenarios[r].mean_roics[y]) /\ scenarios[r].mean_roics[y] >= 0

\* C15 witness: a two-year call with noise and positive capital has
\* returned; its last trial made a loss in year 0, recorded NOPAT 0 for it,
\* and the scenario's mean_roic of that year is 0.
C15_Witness ==
    /\ pc = "done"
    /\ ~rng_stubbed
    /\ draws > 0
    /\ args.invested_capital > 0
    /\ args.tax_rate < One
    /\ args.n_years >= 2
    /\ FSub(FSub(args.revenue, args.cogs), args.non_marketing_opex)
          < FMul(args.total_marketing_spend, args.base_effectiveness)
    /\ yearly_nopat[1] = 0
    /\ \E r \in DOMAIN scenarios : scenarios[r].set /\ scenarios[r].mean_roics[1] = 0

\* ------------------------------------------------------------------------
\* Claims about calculate_effective_tax_rate (checked under SpecTax).
\* ------------------------------------------------------------------------
\* The spacing of the floats just above 1.0 (the machine epsilon).
UlpOne == Unit \div (2 ^ (Precision - 1))

TaxFinished == pc \in {"done", "raised"}

\* revenue - cogs - non_marketing_opex - total_marketing_spend * (1 - waste),
\* as the claims write it.
WasteFreeIncome ==
    FSub(FSub(FSub(args.revenue, args.cogs), args.non_marketing_opex),
         FMul(args.total_marketing_spend, FSub(One, args.waste_percentage)))

\* C3 as stated: for any inputs, waste_percentage = 0 returns exactly the
\* nominal tax_rate.
C3_ExactNominalRate ==
    (TaxFinished /\ args.waste_percentage = 0) => ret = args.tax_rate

\* C3 amended: with waste_percentage = 0 the call returns 0 when the
\* operating income is not positive, and otherwise the nominal tax_rate up
\* to floating-point rounding: within two units in the last place of 1.0.
C3_NominalRateUpToRounding ==
    (TaxFinished /\ args.waste_percentage = 0) =>
        /\ pc = "done"
        /\ IF WasteFreeIncome <= 0
           THEN ret = 0
           ELSE FAbs(ret - args.tax_rate) <= 2 * UlpOne

\* C3 witness: a waste-free call with positive income whose result is the
\* nominal rate rounded, not the nominal rate itself.
C3_Witness ==
    /\ pc = "done"
    /\ args.waste_percentage = 0
    /\ WasteFreeIncome > 0
    /\ ret # args.tax_rate
    /\ FAbs(ret - args.tax_rate) <= 2 * UlpOne

\* C4: whenever revenue - cogs - non_marketing_opex -
\* total_marketing_spend * (1 - waste_percentage) <= 0 the call returns
\* exactly 0 and evaluates no division.
C4_ZeroWithoutDivision ==
    (TaxFinished /\ WasteFreeIncome <= 0) =>
        /\ pc = "done"
        /\ ret = 0
        /\ denoms = {}

\* C4 witness: the boundary case, income exactly 0 with a positive spend and
\* a positive tax rate.
C4_Witness ==
    /\ pc = "done"
    /\ WasteFreeIncome = 0
    /\ args.total_marketing_spend > 0
    /\ args.tax_rate > 0
    /\ ret = 0
    /\ denoms = {}

\* (true_operating_income - wasted_marketing) * (1 - tax_rate), the NOPAT
\* at the nominal rate as C14 writes it.
C14_NominalNopat ==
    FMul(FSub(WasteFreeIncome, FMul(args.total_marketing_spend, args.waste_percentage)),
         FSub(One, args.tax_rate))
\* true_operating_income * (1 - r) for the rate r returned.
C14_EffectiveNopat == FMul(WasteFreeIncome, FSub(One, ret))

\* C14 as stated: with positive waste-free operating income the rate
\* returned reproduces the NOPAT exactly and is never below tax_rate.
C14_AsStated ==
    (TaxFinished /\ WasteFreeIncome > 0) =>
        /\ C14_EffectiveNopat = C14_NominalNopat
        /\ ret >= args.tax_rate

\* C14 amended: with positive waste-free operating income the call returns,
\* the rate returned reproduces the NOPAT up to rounding (within two units
\* in the last place of true_operating_income + |NOPAT|) and is not below
\* tax_rate by more than two units in the last place of 1.0.
C14_EqualNopatUpToRounding ==
    (TaxFinished /\ WasteFreeIncome > 0) =>
        /\ pc = "done"
        /\ FAbs(C14_EffectiveNopat - C14_NominalNopat)
              <= (2 * (WasteFreeIncome + FAbs(C14_NominalNopat))) \div 2 ^ (Precision - 1)
        /\ ret >= args.tax_rate - 2 * UlpOne

\* C14 witness: a call with waste and positive waste-free income returns a
\* rate above the nominal one that reproduces the NOPAT only up to
\* rounding.
C14_Witness ==
    /\ pc = "done"
    /\ WasteFreeIncome > 0
    /\ args.waste_percentage > 0
    /\ args.total_marketing_spend > 0
    /\ args.tax_rate > 0
    /\ ret > args.tax_rate
    /\ C14_EffectiveNopat # C14_NominalNopat

\* ------------------------------------------------------------------------
\* Claims about calculate_roic_improvement (checked under SpecRoic).
\* ------------------------------------------------------------------------
\* operating_income(r) as C2 writes it.
C2_OperatingIncome(r) ==
    FSub(FSub(FSub(args.revenue, args.cogs), args.non_marketing_opex),
         FSub(args.total_marketing_spend,
              FMul(FMul(args.total_marketing_spend,
                        FSub(One, args.effectiveness_percentage)), r)))

C2_Expected(r) ==
    IF C2_OperatingIncome(r) <= 0 \/ args.invested_capital <= 0
    THEN 0
    ELSE FDiv(FMul(C2_OperatingIncome(r), FSub(One, args.tax_rate)),
              args.invested_capital)

\* C2: every value of the sweep is 0 when operating_income(r) <= 0 or
\* invested_capital <= 0, and operating_income(r) * (1 - tax_rate) /
\* invested_capital otherwise; it is never negative, and the call never
\* fails.
C2_RoicFloor ==
    /\ pc # "raised"
    /\ \A i \in 1 .. Len(roic_values) :
          /\ roic_values[i] = C2_Expected(removal_percentages[i])
          /\ roic_values[i] >= 0

\* C2 witness: a finished sweep with a floored point and a positive point.
C2_Witness ==
    /\ pc = "done"
    /\ args.invested_capital > 0
    /\ \E i, j \in 1 .. Len(roic_values) :
          /\ C2_OperatingIncome(removal_percentages[i]) <= 0
          /\ roic_values[i] = 0
          /\ C2_OperatingIncome(removal_percentages[j]) > 0
          /\ roic_values[j] > 0

\* C5: for an effectiveness fraction < 1, ROIC is non-decreasing along the
\* sweep over the points at which operating income is positive.
C5_Monotone ==
    args.effectiveness_percentage < One =>
        \A i, j \in 1 .. Len(roic_values) :
            ( /\ removal_percentages[i] <= removal_percentages[j]
              /\ C2_OperatingIncome(removal_percentages[i]) > 0
              /\ C2_OperatingIncome(removal_percentages[j]) > 0 )
            => roic_values[i] <= roic_values[j]

\* C5 witness: a finished sweep that strictly rises between two points of
\* positive operating income.
C5_Witness ==
    /\ pc = "done"
    /\ args.effectiveness_percentage < One
    /\ \E i, j \in 1 .. Len(roic_values) :
          /\ removal_percentages[i] < removal_percentages[j]
          /\ C2_OperatingIncome(removal_percentages[i]) > 0
          /\ roic_values[i] < roic_values[j]

\* ROIC computed directly from a given marketing spend.
DirectRoic(marketing) ==
    LET operating_income ==
            FSub(FSub(FSub(args.revenue, args.cogs), args.non_marketing_opex), marketing)
    IN  IF operating_income <= 0 \/ args.invested_capital <= 0
        THEN 0
        ELSE FDiv(FMul(operating_income, FSub(One, args.tax_rate)),
                  args.invested_capital)

\* The spend the sweep uses at removal_fraction = 1.
SpendAfterFullRemoval ==
    FSub(args.total_marketing_spend,
         FMul(args.total_marketing_spend, FSub(One, args.effectiveness_percentage)))

\* C6 as stated: the removal_fraction = 0 point is the ROIC of the
\* unmodified total_marketing_spend and the removal_fraction = 1 point is
\* the ROIC of current_marketing = total_marketing_spend * e.
C6_EndpointsAsStated ==
    \A i \in 1 .. Len(roic_values) :
        /\ removal_percentages[i] = 0 =>
              roic_values[i] = DirectRoic(args.total_marketing_spend)
        /\ removal_percentages[i] = One =>
              roic_values[i] =
                  DirectRoic(FMul(args.total_marketing_spend, args.effectiveness_percentage))

\* C6 amended: the removal_fraction = 0 point (the first, present when
\* removal_points >= 1) is the ROIC of the unmodified total_marketing_spend;
\* the removal_fraction = 1 point (the last, present when removal_points >=
\* 2) is the ROIC of current_marketing = total_marketing_spend -
\* total_marketing_spend * (1 - e), a spend within two units in the last
\* place of total_marketing_spend * e.
C6_Endpoints ==
    /\ \A i \in 1 .. Len(roic_values) :
          /\ removal_percentages[i] = 0 =>
                roic_values[i] = DirectRoic(args.total_marketing_spend)
          /\ removal_percentages[i] = One =>
                roic_values[i] = DirectRoic(SpendAfterFullRemoval)
    /\ pc = "done" =>
          /\ Len(roic_values) = args.removal_points
          /\ args.removal_points >= 1 => removal_percentages[1] = 0
          /\ args.removal_points >= 2 =>
                removal_percentages[args.removal_points] = One
          /\ FAbs(SpendAfterFullRemoval
                  - FMul(args.total_marketing_spend, args.effectiveness_percentage))
                * 2 ^ (Precision - 1) <= 2 * args.total_marketing_spend

\* C6 witness: a finished sweep whose last point has removal_fraction = 1
\* and a ROIC that differs from the ROIC of total_marketing_spend * e.
C6_Witness ==
    /\ pc = "done"
    /\ args.removal_points >= 2
    /\ removal_percentages[args.removal_points] = One
    /\ roic_values[args.removal_points] = DirectRoic(SpendAfterFullRemoval)
    /\ roic_values[args.removal_points] #
          DirectRoic(FMul(args.total_marketing_spend, args.effectiveness_percentage))
    /\ roic_values[1] = DirectRoic(args.total_marketing_spend)

\* C9 as stated: for every point count >= 1 the sweep has removal_points
\* entries and contains both endpoints 0 and 1.
C9_BothEndpointsAlways ==
    (pc = "done" /\ args.removal_points >= 1) =>
        /\ Len(removal_percentages) = args.removal_points
        /\ \E i \in 1 .. Len(removal_percentages) : removal_percentages[i] = 0
        /\ \E i \in 1 .. Len(removal_percentages) : removal_percentages[i] = One

\* C9 amended: for every removal_points >= 2 the sweep has removal_points
\* entries, starts at 0, ends at exactly 1, is strictly increasing and is
\* uniform up to rounding: entry i is within one unit in the last place of
\* 1.0 of i / (removal_points - 1).  (removal_points = 1 gives the single
\* point 0.)
C9_UniformSweep ==
    (pc # "call" /\ args.removal_points >= 2) =>
        LET n == args.removal_points IN
        /\ Len(removal_percentages) = n
        /\ removal_percentages[1] = 0
        /\ removal_percentages[n] = One
        /\ \A i \in 1 .. n - 1 : removal_percentages[i] < removal_percentages[i + 1]
        /\ \A i \in 1 .. n :
              FAbs(removal_percentages[i] * (n - 1) - (i - 1) * Unit)
                  <= (n - 1) * UlpOne

\* C9 witness: a finished sweep of at least three points with an interior
\* point that is not exactly representable.
C9_Witness ==
    /\ pc = "done"
    /\ args.removal_points >= 3
    /\ Len(removal_percentages) = args.removal_points
    /\ removal_percentages[1] = 0
    /\ removal_percentages[args.removal_points] = One
    /\ \E i \in 2 .. args.removal_points - 1 :
          removal_percentages[i] * (args.removal_points - 1) # (i - 1) * Unit

====
